---- MODULE Spec2Model ----
(***************************************************************************)
(* Model of ucd_to_harness.py: the entity classifier (detect_kind), the    *)
(* name resolver (pull_name), the process flattener                        *)
(* (flatten_process_steps) and the association passes of main().           *)
(*                                                                         *)
(* Python strings are sequences of one-character strings, so that lower(), *)
(* strip() and the substring test `a in b` are computed and not assumed.   *)
(* JSON values are tagged records [t, v]:                                  *)
(*   "str"  v = the characters        "num"  v = a natural number          *)
(*   "none" v = <<>> (None / null)    "list" v = the sequence of elements  *)
(*   "dict" v = the sequence of <<key, value>> pairs in insertion order    *)
(*   "ref"  v = the index of a dict object in the heap (a Python reference *)
(*              to a shared object; the only way a structure is cyclic)    *)
(***************************************************************************)
EXTENDS Integers, Sequences, FiniteSets, TLC

VARIABLES obj, path, heap, ret, fpc,
          items, applications, components, environments, processes,
          app_process_map, comp_process_map, owners, app_services, app_env,
          handed, indexed, idx, pc

vars == <<obj, path, heap, ret, fpc,
          items, applications, components, environments, processes,
          app_process_map, comp_process_map, owners, app_services, app_env,
          handed, indexed, idx, pc>>

fnVars == <<obj, path, heap, ret, fpc>>

mainVars == <<items, applications, components, environments, processes,
              app_process_map, comp_process_map, owners, app_services, app_env,
              handed, indexed, idx, pc>>

(***************************************************************************)
(* String literals of the source, as character sequences.                  *)
(***************************************************************************)
S_objectType == <<"o", "b", "j", "e", "c", "t", "T", "y", "p", "e">>
S_class == <<"c", "l", "a", "s", "s">>
S_entityType == <<"e", "n", "t", "i", "t", "y", "T", "y", "p", "e">>
S_type == <<"t", "y", "p", "e">>
S_name == <<"n", "a", "m", "e">>
S_application == <<"a", "p", "p", "l", "i", "c", "a", "t", "i", "o", "n">>
S_applicationName == <<"a", "p", "p", "l", "i", "c", "a", "t", "i", "o", "n", "N", "a", "m", "e">>
S_component == <<"c", "o", "m", "p", "o", "n", "e", "n", "t">>
S_componentName == <<"c", "o", "m", "p", "o", "n", "e", "n", "t", "N", "a", "m", "e">>
S_environment == <<"e", "n", "v", "i", "r", "o", "n", "m", "e", "n", "t">>
S_environmentName == <<"e", "n", "v", "i", "r", "o", "n", "m", "e", "n", "t", "N", "a", "m", "e">>
S_displayName == <<"d", "i", "s", "p", "l", "a", "y", "N", "a", "m", "e">>
S_components == <<"c", "o", "m", "p", "o", "n", "e", "n", "t", "s">>
S_environments == <<"e", "n", "v", "i", "r", "o", "n", "m", "e", "n", "t", "s">>
S_steps == <<"s", "t", "e", "p", "s">>
S_rootActivity == <<"r", "o", "o", "t", "A", "c", "t", "i", "v", "i", "t", "y">>
S_commandName == <<"c", "o", "m", "m", "a", "n", "d", "N", "a", "m", "e">>
S_properties == <<"p", "r", "o", "p", "e", "r", "t", "i", "e", "s">>
S_propDefs == <<"p", "r", "o", "p", "D", "e", "f", "s">>
S_description == <<"d", "e", "s", "c", "r", "i", "p", "t", "i", "o", "n">>
S_children == <<"c", "h", "i", "l", "d", "r", "e", "n">>
S_next == <<"n", "e", "x", "t">>
S_activities == <<"a", "c", "t", "i", "v", "i", "t", "i", "e", "s">>
S_componentList == <<"c", "o", "m", "p", "o", "n", "e", "n", "t", "L", "i", "s", "t">>
S_applicationComponents == <<"a", "p", "p", "l", "i", "c", "a", "t", "i", "o", "n", "C", "o", "m", "p", "o", "n", "e", "n", "t", "s">>
S_template == <<"t", "e", "m", "p", "l", "a", "t", "e">>
S_process == <<"p", "r", "o", "c", "e", "s", "s">>
S_applications == <<"a", "p", "p", "l", "i", "c", "a", "t", "i", "o", "n", "s">>
S_processes == <<"p", "r", "o", "c", "e", "s", "s", "e", "s">>
S_Step == <<"S", "t", "e", "p">>
S_unnamed_ == <<"u", "n", "n", "a", "m", "e", "d", "-">>
S_PlaceholderEnv == <<"P", "l", "a", "c", "e", "h", "o", "l", "d", "e", "r", "E", "n", "v">>
S_PlaceholderApp == <<"P", "l", "a", "c", "e", "h", "o", "l", "d", "e", "r", "A", "p", "p">>

(***************************************************************************)
(* Python str operations.                                                  *)
(***************************************************************************)
LowerMap ==
  [A |-> "a", B |-> "b", C |-> "c", D |-> "d", E |-> "e", F |-> "f", G |-> "g",
   H |-> "h", I |-> "i", J |-> "j", K |-> "k", L |-> "l", M |-> "m", N |-> "n",
   O |-> "o", P |-> "p", Q |-> "q", R |-> "r", S |-> "s", T |-> "t", U |-> "u",
   V |-> "v", W |-> "w", X |-> "x", Y |-> "y", Z |-> "z"]

\* str.lower()
Lower(s) == [i \in 1..Len(s) |-> IF s[i] \in DOMAIN LowerMap THEN LowerMap[s[i]] ELSE s[i]]

\* `sub in s` for two strings
Contains(sub, s) ==
  \E i \in 0..(Len(s) - Len(sub)) : SubSeq(s, i + 1, i + Len(sub)) = sub

Whitespace == {" "}

\* bool(s.strip()): some character of s is not whitespace
StripNonEmpty(s) == \E i \in 1..Len(s) : s[i] \notin Whitespace

(***************************************************************************)
(* JSON values and dict access.                                            *)
(***************************************************************************)
Str(s)   == [t |-> "str", v |-> s]
Num(n)   == [t |-> "num", v |-> n]
None     == [t |-> "none", v |-> <<>>]
List(xs) == [t |-> "list", v |-> xs]
Dict(kv) == [t |-> "dict", v |-> kv]
Ref(i)   == [t |-> "ref", v |-> i]

IsStr(x)  == x.t = "str"
IsList(x) == x.t = "list"
\* isinstance(x, dict): a dict literal or a reference to a dict object
IsDict(x) == x.t \in {"dict", "ref"}

\* the dict object a value denotes (heap holds the shared dict objects)
Deref(x) == IF x.t = "ref" THEN heap[x.v] ELSE x

Keys(d) == {d.v[i][1] : i \in 1..Len(d.v)}

\* `k in d`
Has(d, k) == k \in Keys(d)

\* d.get(k): the value at k, None when the key is absent
Get(d, k) ==
  IF Has(d, k) THEN d.v[CHOOSE i \in 1..Len(d.v) : d.v[i][1] = k][2] ELSE None

\* Python truthiness of a JSON value
Truthy(x) ==
  CASE x.t = "none" -> FALSE
    [] x.t = "num"  -> x.v # 0
    [] x.t = "ref"  -> Len(heap[x.v].v) > 0
    [] OTHER        -> Len(x.v) > 0

\* a or b
Or(a, b) == IF Truthy(a) THEN a ELSE b

(***************************************************************************)
(* detect_kind                                                             *)
(***************************************************************************)
TypeKeys == <<S_objectType, S_class, S_entityType, S_type>>

\* the four tests applied to one declared-type string; "" when none returns
KindOfTypeString(s) ==
  LET v == Lower(s) IN
  IF Contains(S_application, v) /\ ~Contains(S_template, v) THEN "application"
  ELSE IF Contains(S_component, v) /\ ~Contains(S_template, v) THEN "component"
  ELSE IF Contains(S_environment, v) THEN "environment"
  ELSE IF Contains(S_process, v) THEN "process"
  ELSE ""

\* the loop over the declared-type keys; "" when the loop ends without a return
RECURSIVE DeclaredKind(_, _)
DeclaredKind(o, keys) ==
  IF keys = <<>> THEN ""
  ELSE LET key == Head(keys) IN
       IF Has(o, key) /\ IsStr(Get(o, key)) /\ KindOfTypeString(Get(o, key).v) # ""
       THEN KindOfTypeString(Get(o, key).v)
       ELSE DeclaredKind(o, Tail(keys))

\* the path hints; "" when none returns
PathKind(p) ==
  LET pstr == Lower(p) IN
  IF Contains(S_applications, pstr) /\ ~Contains(S_process, pstr) THEN "application"
  ELSE IF Contains(S_components, pstr) /\ ~Contains(S_template, pstr) THEN "component"
  ELSE IF Contains(S_environments, pstr) THEN "environment"
  ELSE IF Contains(S_process, pstr) \/ Contains(S_processes, pstr) THEN "process"
  ELSE ""

\* the key hints; "" when none returns
KeyKind(o) ==
  IF Has(o, S_components) /\ Has(o, S_environments) THEN "application"
  ELSE IF {S_component, S_componentName} \cap Keys(o) # {} THEN "component"
  ELSE IF {S_environment, S_environmentName} \cap Keys(o) # {} THEN "environment"
  ELSE IF {S_steps, S_rootActivity} \cap Keys(o) # {} THEN "process"
  ELSE ""

DetectKindPathFirst(o, p) ==
  IF PathKind(p) # "" THEN PathKind(p)
  ELSE IF DeclaredKind(o, TypeKeys) # "" THEN DeclaredKind(o, TypeKeys)
  ELSE IF KeyKind(o) # "" THEN KeyKind(o)
  ELSE "unknown"

DetectKind(o, p) ==
  IF DeclaredKind(o, TypeKeys) # "" THEN DeclaredKind(o, TypeKeys)
  ELSE IF PathKind(p) # "" THEN PathKind(p)
  ELSE IF KeyKind(o) # "" THEN KeyKind(o)
  ELSE "unknown"

(***************************************************************************)
(* pull_name                                                               *)
(***************************************************************************)
NameKeys == <<S_name, S_application, S_applicationName, S_component, S_componentName,
              S_environment, S_environmentName, S_displayName>>

\* uuid.uuid4().hex[:6]: the values the model draws the random suffix from
HexSuffixes == {<<"0", "a", "1", "b", "2", "c">>, <<"f", "9", "e", "8", "d", "7">>}

\* the first loop: the value of the first key holding a string with a
\* non-blank strip(); None when the loop ends without a return
RECURSIVE FirstNameKey(_, _)
FirstNameKey(o, keys) ==
  IF keys = <<>> THEN None
  ELSE LET k == Head(keys) IN
       IF Has(o, k) /\ IsStr(Get(o, k)) /\ StripNonEmpty(Get(o, k).v)
       THEN Get(o, k)
       ELSE FirstNameKey(o, Tail(keys))

\* the second loop, over obj.items() from position i: the 'name' of the first
\* dict value that holds a string 'name'; None when there is none
RECURSIVE NestedName(_, _)
NestedName(o, i) ==
  IF i > Len(o.v) THEN None
  ELSE LET v == o.v[i][2] IN
       IF IsDict(v) /\ Has(Deref(v), S_name) /\ IsStr(Get(Deref(v), S_name))
       THEN Get(Deref(v), S_name)
       ELSE NestedName(o, i + 1)

\* pull_name(obj), u being the random hex suffix drawn by uuid4
PullName(o, u) ==
  IF FirstNameKey(o, NameKeys) # None THEN FirstNameKey(o, NameKeys).v
  ELSE IF NestedName(o, 1) # None THEN NestedName(o, 1).v
  ELSE S_unnamed_ \o u

(***************************************************************************)
(* str() and json.dumps                                                    *)
(***************************************************************************)
Digits == <<"0", "1", "2", "3", "4", "5", "6", "7", "8", "9">>

RECURSIVE NumStr(_)
NumStr(n) == IF n < 10 THEN <<Digits[n + 1]>> ELSE NumStr(n \div 10) \o <<Digits[(n % 10) + 1]>>

\* str(x) for the scalars a name or a description holds in the modelled inputs
PyStr(x) ==
  CASE x.t = "str"  -> x.v
    [] x.t = "num"  -> NumStr(x.v)
    [] x.t = "none" -> <<"N", "o", "n", "e">>

\* the characters of the modelled alphabet in code-point order
Ascii == <<" ", "\"", ",", "-", ".", "/",
           "0", "1", "2", "3", "4", "5", "6", "7", "8", "9", ":",
           "A", "B", "C", "D", "E", "F", "G", "H", "I", "J", "K", "L", "M",
           "N", "O", "P", "Q", "R", "S", "T", "U", "V", "W", "X", "Y", "Z",
           "[", "]", "_",
           "a", "b", "c", "d", "e", "f", "g", "h", "i", "j", "k", "l", "m",
           "n", "o", "p", "q", "r", "s", "t", "u", "v", "w", "x", "y", "z",
           "{", "}">>

Ord(c) == CHOOSE i \in 1..Len(Ascii) : Ascii[i] = c

\* a < b for two strings (code-point lexicographic order)
RECURSIVE StrLess(_, _)
StrLess(a, b) ==
  IF b = <<>> THEN FALSE
  ELSE IF a = <<>> THEN TRUE
  ELSE IF Head(a) # Head(b) THEN Ord(Head(a)) < Ord(Head(b))
  ELSE StrLess(Tail(a), Tail(b))

\* sorted(d.items()) by key, as sort_keys=True orders a dict
RECURSIVE SortItems(_)
SortItems(kv) ==
  IF kv = <<>> THEN <<>>
  ELSE LET m == CHOOSE i \in 1..Len(kv) : \A j \in 1..Len(kv) : ~StrLess(kv[j][1], kv[i][1])
       IN <<kv[m]>> \o SortItems(SubSeq(kv, 1, m - 1) \o SubSeq(kv, m + 1, Len(kv)))

RECURSIVE Dumps(_, _), DumpsList(_, _), DumpsItems(_, _)
\* json.dumps(x, sort_keys=sorted) with the default separators
Dumps(x, sorted) ==
  CASE x.t = "str"  -> <<"\"">> \o x.v \o <<"\"">>
    [] x.t = "num"  -> NumStr(x.v)
    [] x.t = "none" -> <<"n", "u", "l", "l">>
    [] x.t = "list" -> <<"[">> \o DumpsList(x.v, sorted) \o <<"]">>
    [] x.t = "dict" -> <<"{">> \o DumpsItems(IF sorted THEN SortItems(x.v) ELSE x.v, sorted) \o <<"}">>
    [] x.t = "ref"  -> Dumps(heap[x.v], sorted)

DumpsList(xs, sorted) ==
  IF xs = <<>> THEN <<>>
  ELSE Dumps(Head(xs), sorted)
       \o (IF Len(xs) > 1 THEN <<",", " ">> ELSE <<>>) \o DumpsList(Tail(xs), sorted)

DumpsItems(kv, sorted) ==
  IF kv = <<>> THEN <<>>
  ELSE <<"\"">> \o Head(kv)[1] \o <<"\"", ":", " ">> \o Dumps(Head(kv)[2], sorted)
       \o (IF Len(kv) > 1 THEN <<",", " ">> ELSE <<>>) \o DumpsItems(Tail(kv), sorted)

(***************************************************************************)
(* flatten_process_steps                                                   *)
(***************************************************************************)
\* The interpreter's recursion limit, counted in nested calls of visit: the
\* call that would exceed it raises RecursionError.
RecursionLimit == 5

ChildKeys == <<S_children, S_next, S_steps, S_activities>>

Returned(steps) == [err |-> FALSE, steps |-> steps]
Raised == [err |-> TRUE, steps |-> <<>>]

\* the descriptor visit() appends for a dict node
StepOf(node) ==
  LET step_name == Or(Or(Or(Get(node, S_name), Get(node, S_commandName)),
                         Get(node, S_type)), Str(S_Step))
      props == Or(Or(Get(node, S_properties), Get(node, S_propDefs)), Dict(<<>>))
      desc == Or(Get(node, S_description), Str(<<>>))
  IN [name |-> PyStr(step_name),
      description |-> PyStr(desc),
      properties |-> IF IsDict(props) THEN Deref(props) ELSE Dict(<<>>)]

RECURSIVE Visit(_, _), VisitEach(_, _), VisitChildren(_, _, _)
\* visit(node) as the depth-th nested call: the descriptors it appends, in
\* order, or Raised when the recursion limit is exceeded below it
Visit(node, depth) ==
  IF ~IsDict(node) THEN Returned(<<>>)
  ELSE IF depth > RecursionLimit THEN Raised
  ELSE LET n == Deref(node)
           below == VisitChildren(n, ChildKeys, depth)
       IN IF below.err THEN Raised ELSE Returned(<<StepOf(n)>> \o below.steps)

\* for c in xs: visit(c)
VisitEach(xs, depth) ==
  IF xs = <<>> THEN Returned(<<>>)
  ELSE LET first == Visit(Head(xs), depth) IN
       IF first.err THEN Raised
       ELSE LET rest == VisitEach(Tail(xs), depth) IN
            IF rest.err THEN Raised ELSE Returned(first.steps \o rest.steps)

\* for child_key in keys: visit the list's elements, or the single dict
VisitChildren(n, keys, depth) ==
  IF keys = <<>> THEN Returned(<<>>)
  ELSE LET child == Get(n, Head(keys))
           first == IF IsList(child) THEN VisitEach(child.v, depth + 1)
                    ELSE IF IsDict(child) THEN Visit(child, depth + 1)
                    ELSE Returned(<<>>)
       IN IF first.err THEN Raised
          ELSE LET rest == VisitChildren(n, Tail(keys), depth) IN
               IF rest.err THEN Raised ELSE Returned(first.steps \o rest.steps)

DedupKeyNameOnly(s) == <<s.name>>

\* the key the last loop deduplicates by
DedupKey(s) == <<s.name, Dumps(s.properties, TRUE)>>

\* the last loop: keep a descriptor when its key was not seen before
RECURSIVE Uniq(_, _)
Uniq(steps, seen) ==
  IF steps = <<>> THEN <<>>
  ELSE LET k == DedupKey(Head(steps)) IN
       IF k \notin seen THEN <<Head(steps)>> \o Uniq(Tail(steps), seen \cup {k})
       ELSE Uniq(Tail(steps), seen)

\* the traversal from the entry point the object's shape selects
Traverse(o) ==
  IF IsDict(Get(o, S_rootActivity)) THEN Visit(Get(o, S_rootActivity), 1)
  ELSE IF IsList(Get(o, S_steps)) THEN VisitEach(Get(o, S_steps).v, 1)
  ELSE IF IsList(Get(o, S_activities)) THEN VisitEach(Get(o, S_activities).v, 1)
  ELSE Visit(o, 1)

\* flatten_process_steps(obj): Returned(uniq), or Raised (RecursionError)
Flatten(o) ==
  IF Traverse(o).err THEN Raised ELSE Returned(Uniq(Traverse(o).steps, {}))

(***************************************************************************)
(* Idle values of the variables a specification does not use.              *)
(***************************************************************************)
MainIdle ==
  /\ items = <<>> /\ applications = <<>> /\ components = <<>> /\ environments = <<>>
  /\ processes = <<>> /\ app_process_map = <<>> /\ comp_process_map = <<>>
  /\ owners = <<>> /\ indexed = <<>>
  /\ app_services = <<>> /\ app_env = <<>> /\ handed = <<>> /\ idx = 0 /\ pc = "idle"

(***************************************************************************)
(* SpecDetectKind: detect_kind applied to bounded objects and paths.       *)
(***************************************************************************)
\* how many of the four declared-type keys an input object carries at most
MaxTypeFields == 2

TypeValues ==
  {Str(<<"A", "p", "p", "l", "i", "c", "a", "t", "i", "o", "n">>), Str(<<"a", "p", "p", "l", "i", "c", "a", "t", "i", "o", "n", "T", "e", "m", "p", "l", "a", "t", "e">>), Str(<<"C", "O", "M", "P", "O", "N", "E", "N", "T">>),
   Str(<<"E", "n", "v", "i", "r", "o", "n", "m", "e", "n", "t">>), Str(<<"c", "o", "m", "p", "o", "n", "e", "n", "t", "P", "r", "o", "c", "e", "s", "s", "T", "e", "m", "p", "l", "a", "t", "e">>), Str(<<"m", "i", "s", "c">>), Num(1)}

StructKeySets ==
  {<<>>, <<S_components, S_environments>>, <<S_components>>, <<S_componentName>>,
   <<S_environment, S_steps>>, <<S_rootActivity>>}

DetectPaths ==
  {<<"e", "x", "p", "o", "r", "t", "/", "A", "p", "p", "l", "i", "c", "a", "t", "i", "o", "n", "s", "/", "a", ".", "j", "s", "o", "n">>, <<"a", "p", "p", "l", "i", "c", "a", "t", "i", "o", "n", "s", "/", "a", "/", "p", "r", "o", "c", "e", "s", "s", ".", "j", "s", "o", "n">>,
   <<"C", "o", "m", "p", "o", "n", "e", "n", "t", "s", "/", "c", ".", "j", "s", "o", "n">>, <<"c", "o", "m", "p", "o", "n", "e", "n", "t", "s", "/", "t", "e", "m", "p", "l", "a", "t", "e", ".", "j", "s", "o", "n">>,
   <<"x", "/", "E", "n", "v", "i", "r", "o", "n", "m", "e", "n", "t", "s", "/", "e", ".", "j", "s", "o", "n">>, <<"x", "/", "P", "r", "o", "c", "e", "s", "s", "e", "s", "/", "p", ".", "j", "s", "o", "n">>,
   <<"m", "i", "s", "c", "/", "x", ".", "j", "s", "o", "n">>}

TypeAssignments ==
  UNION {[K -> TypeValues] : K \in {K \in SUBSET (1..4) : Cardinality(K) <= MaxTypeFields}}

RECURSIVE TypePairs(_, _)
TypePairs(f, i) ==
  IF i > 4 THEN <<>>
  ELSE (IF i \in DOMAIN f THEN <<<<TypeKeys[i], f[i]>>>> ELSE <<>>) \o TypePairs(f, i + 1)

DetectObjects ==
  {Dict(TypePairs(f, 1) \o [i \in 1..Len(ks) |-> <<ks[i], Num(1)>>]) :
     f \in TypeAssignments, ks \in StructKeySets}

InitDetectKind ==
  /\ heap = <<>>
  /\ obj \in DetectObjects
  /\ path \in DetectPaths
  /\ ret = ""
  /\ fpc = "call"
  /\ MainIdle

CallDetectKind ==
  /\ fpc = "call"
  /\ ret' = DetectKind(obj, path)
  /\ fpc' = "done"
  /\ UNCHANGED <<obj, path, heap>>
  /\ UNCHANGED mainVars

NextDetectKind == CallDetectKind

SpecDetectKind == InitDetectKind /\ [][NextDetectKind]_vars

\* the declared-type key at position i holds a string that one of the four tests accepts
TypeMatchAt(o, i) ==
  /\ Has(o, TypeKeys[i])
  /\ IsStr(Get(o, TypeKeys[i]))
  /\ KindOfTypeString(Get(o, TypeKeys[i]).v) # ""

\* C4: detect_kind returns at the first matching layer. A declared-type key
\* that matches (the first such key in the order objectType, class,
\* entityType, type) decides the kind whatever the path and the other keys
\* are; the path decides only when no declared-type key matches; the object's
\* keys decide only when neither does; otherwise the kind is "unknown".
C4_LayerPriority ==
  fpc = "done" =>
    LET M == {i \in 1..4 : TypeMatchAt(obj, i)}
        first == CHOOSE i \in M : \A j \in M : i <= j
    IN /\ M # {} => ret = KindOfTypeString(Get(obj, TypeKeys[first]).v)
       /\ (M = {} /\ PathKind(path) # "") => ret = PathKind(path)
       /\ (M = {} /\ PathKind(path) = "" /\ KeyKind(obj) # "") => ret = KeyKind(obj)
       /\ (M = {} /\ PathKind(path) = "" /\ KeyKind(obj) = "") => ret = "unknown"

\* a declared Component under an environments path, carrying process keys, is a component
C4_Witness ==
  /\ fpc = "done"
  /\ Get(obj, S_objectType) = Str(<<"C", "O", "M", "P", "O", "N", "E", "N", "T">>)
  /\ PathKind(path) = "environment"
  /\ KeyKind(obj) = "process"
  /\ ret = "component"

(***************************************************************************)
(* SpecPullName: pull_name applied to bounded objects.                     *)
(***************************************************************************)
Absent == [t |-> "absent", v |-> <<>>]

\* the dict of the pairs whose value is present, in the given order
RECURSIVE Present(_)
Present(kv) ==
  IF kv = <<>> THEN <<>>
  ELSE (IF Head(kv)[2] = Absent THEN <<>> ELSE <<Head(kv)>>) \o Present(Tail(kv))

S_meta == <<"m", "e", "t", "a">>
S_owner == <<"o", "w", "n", "e", "r">>

PullNameObjects ==
  {Dict(Present(<<<<S_meta, m>>, <<S_name, n>>, <<S_application, a>>,
                  <<S_displayName, d>>, <<S_owner, w>>>>)) :
     m \in {Absent, Dict(<<>>), Dict(<<<<S_name, Str(<<>>)>>>>),
            Dict(<<<<S_name, Str(<<"I", "n", "n", "e", "r">>)>>>>), Dict(<<<<S_name, Num(7)>>>>)},
     n \in {Absent, Str(<<>>), Str(<<" ">>), Str(<<"W", "e", "b">>)},
     a \in {Absent, Str(<<"S", "h", "o", "p">>)},
     d \in {Absent, Num(1), Str(<<"D", "i", "s", "p">>)},
     w \in {Absent, Str(<<"t", "e", "a", "m">>), Dict(<<<<S_name, Str(<<"S", "e", "c", "o", "n", "d">>)>>>>)}}

InitPullName ==
  /\ heap = <<>>
  /\ obj \in PullNameObjects
  /\ path = <<>>
  /\ ret = <<>>
  /\ fpc = "call"
  /\ MainIdle

CallPullName ==
  /\ fpc = "call"
  /\ \E u \in HexSuffixes : ret' = PullName(obj, u)
  /\ fpc' = "done"
  /\ UNCHANGED <<obj, path, heap>>
  /\ UNCHANGED mainVars

NextPullName == CallPullName

SpecPullName == InitPullName /\ [][NextPullName]_vars

\* C6: pull_name returns a non-empty string for every mapping.
C6_NameNonEmpty == fpc = "done" => Len(ret) > 0

(***************************************************************************)
(* SpecFlatten: flatten_process_steps applied to bounded process objects   *)
(* whose step nodes are shared dict objects of the heap, so that a node    *)
(* can be referred to twice and can refer back to an ancestor.             *)
(***************************************************************************)
\* how many step nodes the heap of an input holds
MaxNodes == 3

S_a == <<"a">>
S_b == <<"b">>
S_A == <<"A">>
S_B == <<"B">>
S_P == <<"P">>
S_d == <<"d">>

\* name / properties of a node: the second and the third differ only in the
\* spelling of the keys and in the order of the properties
NodeLabels ==
  {<<<<S_name, Str(S_A)>>>>,
   <<<<S_name, Str(S_A)>>, <<S_properties, Dict(<<<<S_a, Num(1)>>, <<S_b, Num(2)>>>>)>>>>,
   <<<<S_commandName, Str(S_A)>>, <<S_description, Str(S_d)>>,
     <<S_propDefs, Dict(<<<<S_b, Num(2)>>, <<S_a, Num(1)>>>>)>>>>,
   <<<<S_name, Str(S_B)>>>>}

\* the child links of node i: none, one child (the next node or back to node
\* 1), two children, or a dict-valued `next` written before a `children` list
NodeLinks(i) ==
  {<<>>}
  \cup {<<<<S_children, List(<<Ref(j)>>)>>>> : j \in {1, i + 1} \cap (1..MaxNodes)}
  \cup (IF i + 2 <= MaxNodes
        THEN {<<<<S_children, List(<<Ref(i + 1), Ref(i + 2)>>)>>>>,
              <<<<S_next, Ref(i + 1)>>, <<S_children, List(<<Ref(i + 2)>>)>>>>}
        ELSE {})

NodesAt(i) == {Dict(l \o k) : l \in NodeLabels, k \in NodeLinks(i)}

RECURSIVE Heaps(_)
Heaps(k) == IF k = 0 THEN {<<>>} ELSE {Append(h, n) : h \in Heaps(k - 1), n \in NodesAt(k)}

\* the process objects: one per entry-point shape
ProcessObjects ==
  {Dict(<<<<S_rootActivity, Ref(1)>>>>),
   Dict(<<<<S_name, Str(S_P)>>, <<S_steps, List(<<Ref(1), Ref(2)>>)>>>>),
   Dict(<<<<S_activities, List(<<Ref(1)>>)>>>>),
   Dict(<<<<S_name, Str(S_P)>>, <<S_children, List(<<Ref(1)>>)>>>>),
   Dict(<<<<S_steps, List(<<Ref(2)>>)>>, <<S_rootActivity, Ref(1)>>>>),
   Dict(<<<<S_rootActivity, Str(S_P)>>, <<S_steps, Ref(1)>>,
          <<S_activities, List(<<Ref(2)>>)>>>>),
   Dict(<<<<S_name, Str(S_P)>>, <<S_rootActivity, Str(S_A)>>>>)}

InitFlatten ==
  /\ heap \in Heaps(MaxNodes)
  /\ obj \in ProcessObjects
  /\ path = <<>>
  /\ ret = Returned(<<>>)
  /\ fpc = "call"
  /\ MainIdle

CallFlatten ==
  /\ fpc = "call"
  /\ ret' = Flatten(obj)
  /\ fpc' = "done"
  /\ UNCHANGED <<obj, path, heap>>
  /\ UNCHANGED mainVars

NextFlatten == CallFlatten

SpecFlatten == InitFlatten /\ [][NextFlatten]_vars

\* C2: flatten returns a sequence for every process object, cyclic ones included.
C2_FlattenReturns == fpc = "done" => ~ret.err

\* the dict elements of a sequence of values
RECURSIVE DictsOf(_)
DictsOf(xs) ==
  IF xs = <<>> THEN <<>>
  ELSE (IF IsDict(Head(xs)) THEN <<Head(xs)>> ELSE <<>>) \o DictsOf(Tail(xs))

\* the child nodes of a node, by child key in the order children, next, steps, activities
RECURSIVE KidsBy(_, _)
KidsBy(n, keys) ==
  IF keys = <<>> THEN <<>>
  ELSE LET child == Get(n, Head(keys)) IN
       (IF IsList(child) THEN DictsOf(child.v)
        ELSE IF IsDict(child) THEN <<child>> ELSE <<>>) \o KidsBy(n, Tail(keys))

Kids(n) == KidsBy(n, <<S_children, S_next, S_steps, S_activities>>)

\* the nodes the traversal of a process object starts from
EntryNodes(o) ==
  IF IsDict(Get(o, S_rootActivity)) THEN <<Get(o, S_rootActivity)>>
  ELSE IF IsList(Get(o, S_steps)) THEN DictsOf(Get(o, S_steps).v)
  ELSE IF IsList(Get(o, S_activities)) THEN DictsOf(Get(o, S_activities).v)
  ELSE <<o>>

RefsIn(xs) == {xs[i].v : i \in {j \in 1..Len(xs) : xs[j].t = "ref"}}

\* the heap nodes reachable from the heap nodes S in at most k steps
RECURSIVE ReachFrom(_, _)
ReachFrom(S, k) ==
  IF k = 0 THEN S
  ELSE ReachFrom(S \cup UNION {RefsIn(Kids(heap[i])) : i \in S}, k - 1)

\* no node the traversal of o reaches is its own descendant
Acyclic(o) ==
  LET start == RefsIn(EntryNodes(o)) \cup RefsIn(Kids(o))
  IN \A i \in ReachFrom(start, Len(heap)) :
       i \notin ReachFrom(RefsIn(Kids(heap[i])), Len(heap))

\* depth-first pre-order of the descriptors below a stack of pending nodes
RECURSIVE PreOrder(_)
PreOrder(stack) ==
  IF stack = <<>> THEN <<>>
  ELSE LET n == Deref(Head(stack)) IN <<StepOf(n)>> \o PreOrder(Kids(n) \o Tail(stack))

\* two descriptors with the same name and the same properties as mappings
SameKey(s1, s2) ==
  /\ s1.name = s2.name
  /\ Keys(s1.properties) = Keys(s2.properties)
  /\ \A k \in Keys(s1.properties) : Get(s1.properties, k) = Get(s2.properties, k)

\* the positions of a sequence of descriptors that repeat no earlier one
FirstOccurrences(P) == {i \in 1..Len(P) : \A j \in 1..(i - 1) : ~SameKey(P[j], P[i])}

\* C3: for an acyclic process object flatten returns the depth-first
\* pre-order sequence of descriptors (child keys in the order children, next,
\* steps, activities) without the descriptors whose (name, properties) pair
\* repeats an earlier one: the first occurrences, in their order, and no two
\* results with the same pair.
C3_PreOrderDedup ==
  (fpc = "done" /\ Acyclic(obj)) =>
    LET P == PreOrder(EntryNodes(obj))
        F == FirstOccurrences(P)
    IN /\ ~ret.err
       /\ Len(ret.steps) = Cardinality(F)
       /\ \A k \in 1..Len(ret.steps) :
            ret.steps[k] = P[CHOOSE i \in F : Cardinality({j \in F : j <= i}) = k]
       /\ \A k, l \in 1..Len(ret.steps) : k # l => ~SameKey(ret.steps[k], ret.steps[l])

\* an acyclic input where a repeated descriptor was dropped and two results
\* share a name but differ in their properties
C3_Witness ==
  /\ fpc = "done"
  /\ Acyclic(obj)
  /\ ~ret.err
  /\ Len(ret.steps) < Len(PreOrder(EntryNodes(obj)))
  /\ \E k, l \in 1..Len(ret.steps) :
       k < l /\ ret.steps[k].name = ret.steps[l].name
             /\ ret.steps[k].properties # ret.steps[l].properties

(***************************************************************************)
(* main(): Python dicts of the run are sequences of <<key, value>> pairs   *)
(* in insertion order.                                                     *)
(***************************************************************************)
PyHas(d, k) == \E i \in 1..Len(d) : d[i][1] = k

\* d.get(k, default)
PyGet(d, k, default) ==
  IF PyHas(d, k) THEN d[CHOOSE i \in 1..Len(d) : d[i][1] = k][2] ELSE default

\* d[k] = v: an existing key keeps its position
PySet(d, k, v) ==
  IF PyHas(d, k)
  THEN [i \in 1..Len(d) |-> IF d[i][1] = k THEN <<k, v>> ELSE d[i]]
  ELSE Append(d, <<k, v>>)

PyOverwrite(d, k, v) == PySet(d, k, v)

\* d.setdefault(k, v)
PySetDefault(d, k, v) == IF PyHas(d, k) THEN d ELSE Append(d, <<k, v>>)

\* list(d.keys())
PyKeys(d) == [i \in 1..Len(d) |-> d[i][1]]

\* {k: [] for k in d.keys()}
EmptyLists(d) == [i \in 1..Len(d) |-> <<d[i][1], <<>>>>]

(***************************************************************************)
(* Process ownership (the body of the loop over processes).                *)
(***************************************************************************)
NoOwner == <<>>

\* the first of `keys` that pobj holds with a string value; None when no key does
RECURSIVE FirstStringField(_, _)
FirstStringField(pobj, keys) ==
  IF keys = <<>> THEN None
  ELSE IF Has(pobj, Head(keys)) /\ IsStr(Get(pobj, Head(keys))) THEN Get(pobj, Head(keys))
  ELSE FirstStringField(pobj, Tail(keys))

\* owner after the two loops over the explicit fields: the second loop
\* assigns owner whatever the first one found
ExplicitOwner(pobj) ==
  LET a == FirstStringField(pobj, <<S_application, S_applicationName>>)
      c == FirstStringField(pobj, <<S_component, S_componentName>>)
      afterApp == IF a # None THEN <<"app", a.v>> ELSE NoOwner
  IN IF c # None THEN <<"comp", c.v>> ELSE afterApp

\* pname.lower() + " " + text, text being json.dumps(pobj).lower()
Haystack(pname, pobj) == Lower(pname) \o <<" ">> \o Lower(Dumps(pobj, FALSE))

\* the first name of the list whose lower-case form occurs in the haystack; 0 when none
FirstIn(names, hay) ==
  LET hits == {i \in 1..Len(names) : Contains(Lower(names[i]), hay)}
  IN IF hits = {} THEN 0 ELSE CHOOSE i \in hits : \A j \in hits : i <= j

\* owner as the loop body leaves it before the steps are attributed
OwnerOf(pname, pobj, apps, comps) ==
  LET hay == Haystack(pname, pobj)
      ai == FirstIn(PyKeys(apps), hay)
      ci == FirstIn(PyKeys(comps), hay)
  IN IF ExplicitOwner(pobj) # NoOwner THEN ExplicitOwner(pobj)
     ELSE IF ai # 0 THEN <<"app", apps[ai][1]>>
     ELSE IF ci # 0 THEN <<"comp", comps[ci][1]>>
     ELSE NoOwner

ReplaceSteps(m, name, steps) == PySet(m, name, steps)

\* m.setdefault(name, []).extend(steps)
ExtendSteps(m, name, steps) == PySet(m, name, PyGet(m, name, <<>>) \o steps)

AttributeToBoth(am, cm, owner, steps) ==
  IF owner = NoOwner THEN <<am, cm>>
  ELSE <<ExtendSteps(am, owner[2], steps), ExtendSteps(cm, owner[2], steps)>>

\* the two maps after the steps of a process went to its owner's list
Attribute(am, cm, owner, steps) ==
  IF owner # NoOwner /\ owner[1] = "app" THEN <<ExtendSteps(am, owner[2], steps), cm>>
  ELSE IF owner # NoOwner /\ owner[1] = "comp" THEN <<am, ExtendSteps(cm, owner[2], steps)>>
  ELSE <<am, cm>>

(***************************************************************************)
(* Service derivation and environment selection.                           *)
(***************************************************************************)
\* what one entry of a component list adds to comps
EntryNames(it) ==
  IF IsDict(it)
  THEN LET nm == Or(Or(Get(Deref(it), S_name), Get(Deref(it), S_component)),
                    Get(Deref(it), S_componentName))
       IN IF Truthy(nm) THEN <<PyStr(nm)>> ELSE <<>>
  ELSE IF IsStr(it) THEN <<it.v>>
  ELSE <<>>

\* for it in v: ... comps.append(...)
RECURSIVE AppendEntries(_, _)
AppendEntries(comps, v) ==
  IF v = <<>> THEN comps ELSE AppendEntries(comps \o EntryNames(Head(v)), Tail(v))

\* for key in keys: v = aobj.get(key); if isinstance(v, list): ...
RECURSIVE ListedComponents(_, _, _)
ListedComponents(comps, aobj, keys) ==
  IF keys = <<>> THEN comps
  ELSE LET v == Get(aobj, Head(keys)) IN
       ListedComponents(IF IsList(v) THEN AppendEntries(comps, v.v) ELSE comps,
                        aobj, Tail(keys))

ComponentListKeys == <<S_components, S_componentList, S_applicationComponents>>

ServicesOfNoKey(aobj, comps) ==
  IF \A i \in 1..Len(ComponentListKeys) : ~Has(aobj, ComponentListKeys[i])
  THEN PyKeys(comps)
  ELSE ListedComponents(<<>>, aobj, ComponentListKeys)

\* app_services[app_name] for one application object
ServicesOf(aobj, comps) ==
  LET listed == ListedComponents(<<>>, aobj, ComponentListKeys)
  IN IF listed = <<>> THEN PyKeys(comps) ELSE listed

\* list(environments.keys()) or ["PlaceholderEnv"]
EnvNames(envs) == IF PyKeys(envs) = <<>> THEN <<S_PlaceholderEnv>> ELSE PyKeys(envs)

\* applications.keys() or ["PlaceholderApp"]
AppNames(apps) == IF PyKeys(apps) = <<>> THEN <<S_PlaceholderApp>> ELSE PyKeys(apps)

PickEnvFirst(app, env_names) == env_names[1]

\* match or env_names[0], match being the first env whose lower-case name
\* contains the lower-case app name (an empty match is falsy too)
PickEnv(app, env_names) ==
  LET hits == {i \in 1..Len(env_names) : Contains(Lower(app), Lower(env_names[i]))}
      match == IF hits = {} THEN <<>>
               ELSE env_names[CHOOSE i \in hits : \A j \in hits : i <= j]
  IN IF match = <<>> THEN env_names[1] ELSE match

(***************************************************************************)
(* Spec: one run of main() over a bounded input collection.                *)
(***************************************************************************)
\* how many export objects the input collection holds at most
MaxItems == 3

P_export == <<"e", "x", "p", "o", "r", "t", "/", "x", ".", "j", "s", "o", "n">>
P_envdir == <<"e", "x", "p", "o", "r", "t", "/", "E", "n", "v", "i", "r", "o", "n", "m", "e", "n", "t", "s", "/", "e", ".", "j", "s", "o", "n">>
A_checkout == <<P_export, Dict(<<<<S_objectType, Str(<<"A", "p", "p", "l", "i", "c",
    "a", "t", "i", "o", "n">>)>>, <<S_name, Str(<<"C", "h", "e", "c", "k", "o", "u",
    "t">>)>>, <<S_components, List(<<Str(<<"w", "e", "b">>), Str(<<"d",
    "b">>)>>)>>>>)>>

A_checkout2 == <<P_export, Dict(<<<<S_objectType, Str(<<"A", "p", "p", "l", "i", "c",
    "a", "t", "i", "o", "n">>)>>, <<S_name, Str(<<"C", "h", "e", "c", "k", "o", "u",
    "t">>)>>, <<S_componentList, List(<<Dict(<<<<S_component, Str(<<"a", "p",
    "i">>)>>>>), Dict(<<<<<<"i", "d">>, Num(1)>>>>), Num(7)>>)>>,
    <<S_applicationComponents, List(<<Str(<<"d", "b">>)>>)>>, <<S_components,
    Str(<<"w", "e", "b">>)>>>>)>>

A_shop == <<P_export, Dict(<<<<S_type, Str(S_application)>>, <<S_name, Str(<<"S", "h",
    "o", "p">>)>>, <<S_components, List(<<Dict(<<<<<<"i", "d">>, Num(1)>>>>)>>)>>>>)>>

A_anon == <<P_export, Dict(<<<<S_objectType, Str(<<"A", "p", "p", "l", "i", "c", "a",
    "t", "i", "o", "n">>)>>, <<S_meta, Dict(<<<<S_name, Str(<<>>)>>>>)>>>>)>>

C_web == <<P_export, Dict(<<<<S_objectType, Str(<<"C", "o", "m", "p", "o", "n", "e",
    "n", "t">>)>>, <<S_name, Str(<<"w", "e", "b">>)>>>>)>>

C_web2 == <<P_export, Dict(<<<<S_objectType, Str(<<"C", "o", "m", "p", "o", "n", "e",
    "n", "t">>)>>, <<S_name, Str(<<"w", "e", "b">>)>>, <<S_description, Str(<<"s", "e",
    "c", "o", "n", "d">>)>>>>)>>

C_db == <<P_export, Dict(<<<<S_componentName, Str(<<"d", "b">>)>>>>)>>

E_prod == <<P_export, Dict(<<<<S_objectType, Str(<<"E", "n", "v", "i", "r", "o", "n",
    "m", "e", "n", "t">>)>>, <<S_name, Str(<<"p", "r", "o", "d">>)>>>>)>>

E_prod2 == <<P_export, Dict(<<<<S_objectType, Str(<<"E", "n", "v", "i", "r", "o", "n",
    "m", "e", "n", "t">>)>>, <<S_name, Str(<<"p", "r", "o", "d">>)>>, <<S_description,
    Str(<<"s", "e", "c", "o", "n", "d">>)>>>>)>>

E_qa == <<P_envdir, Dict(<<<<S_environment, Str(<<"C", "H", "E", "C", "K", "O", "U",
    "T", "-", "q", "a">>)>>>>)>>

P_checkout == <<P_export, Dict(<<<<S_application, Str(<<"C", "h", "e", "c", "k", "o",
    "u", "t">>)>>, <<S_steps, List(<<Dict(<<<<S_name, Str(<<"B", "u", "i", "l",
    "d">>)>>>>), Dict(<<<<S_name, Str(<<"D", "e", "p", "l", "o", "y">>)>>>>)>>)>>>>)>>

P_both == <<P_export, Dict(<<<<S_type, Str(S_process)>>, <<S_name, Str(<<"r", "e", "l",
    "e", "a", "s", "e">>)>>, <<S_applicationName, Str(<<"C", "h", "e", "c", "k", "o",
    "u", "t">>)>>, <<S_component, Str(<<"w", "e", "b">>)>>, <<S_rootActivity,
    Dict(<<<<S_name, Str(<<"R", "u", "n">>)>>, <<S_children, List(<<Dict(<<<<S_name,
    Str(<<"B", "u", "i", "l", "d">>)>>>>)>>)>>>>)>>>>)>>

P_nightly == <<P_export, Dict(<<<<S_type, Str(S_process)>>, <<S_name, Str(<<"C", "h",
    "e", "c", "k", "o", "u", "t", " ", "n", "i", "g", "h", "t", "l", "y">>)>>,
    <<S_steps, List(<<Dict(<<<<S_name, Str(<<"R", "e", "s", "t", "a", "r", "t", " ",
    "W", "E", "B">>)>>>>)>>)>>>>)>>

P_cleanup == <<P_export, Dict(<<<<S_type, Str(S_process)>>, <<S_name, Str(<<"c", "l",
    "e", "a", "n", "u", "p">>)>>, <<S_steps, List(<<Dict(<<<<S_name, Str(<<"B", "u",
    "i", "l", "d">>)>>>>), Dict(<<<<S_name, Str(<<"B", "u", "i", "l",
    "d">>)>>>>)>>)>>>>)>>

Pool ==
  {A_checkout, A_checkout2, A_shop, A_anon, C_web, C_web2, C_db, E_prod, E_prod2,
   E_qa, P_checkout, P_both, P_nightly, P_cleanup}

RECURSIVE SeqsUpTo(_, _)
SeqsUpTo(S, n) ==
  IF n = 0 THEN {<<>>}
  ELSE SeqsUpTo(S, n - 1) \cup {Append(q, x) : q \in {r \in SeqsUpTo(S, n - 1) : Len(r) = n - 1}, x \in S}

FnIdle == obj = None /\ path = <<>> /\ heap = <<>> /\ ret = None /\ fpc = "idle"

Init ==
  /\ FnIdle
  /\ items \in SeqsUpTo(Pool, MaxItems)
  /\ applications = <<>> /\ components = <<>> /\ environments = <<>>
  /\ processes = <<>>
  /\ app_process_map = <<>> /\ comp_process_map = <<>> /\ owners = <<>>
  /\ indexed = <<>>
  /\ app_services = <<>> /\ app_env = <<>> /\ handed = <<>>
  /\ idx = 0
  /\ pc = "index"

\* one iteration of the loop that indexes the objects by kind and name
IndexItem ==
  /\ pc = "index" /\ idx < Len(items)
  /\ \E u \in HexSuffixes :
       LET p == items[idx + 1][1]
           o == items[idx + 1][2]
           kind == DetectKind(o, p)
           name == PullName(o, u)
       IN /\ applications' = IF kind = "application" THEN PySet(applications, name, o)
                             ELSE applications
          /\ components' = IF kind = "component" THEN PySetDefault(components, name, o)
                           ELSE components
          /\ environments' = IF kind = "environment" THEN PySetDefault(environments, name, o)
                             ELSE environments
          /\ processes' = IF kind = "process" THEN Append(processes, <<name, o>>)
                          ELSE processes
          /\ indexed' = Append(indexed, <<kind, name>>)
  /\ idx' = idx + 1
  /\ UNCHANGED <<items, app_process_map, comp_process_map, owners, app_services,
                 app_env, handed, pc>>
  /\ UNCHANGED fnVars

\* the loop is over: the two step maps get an empty list per known name
StartAssociation ==
  /\ pc = "index" /\ idx = Len(items)
  /\ app_process_map' = EmptyLists(applications)
  /\ comp_process_map' = EmptyLists(components)
  /\ idx' = 0
  /\ pc' = "associate"
  /\ UNCHANGED <<items, indexed, applications, components, environments, processes, owners,
                 app_services, app_env, handed>>
  /\ UNCHANGED fnVars

\* one iteration of the loop over the processes; a RecursionError of the
\* flattener leaves main() through its caller's handler
AssociateProcess ==
  /\ pc = "associate" /\ idx < Len(processes)
  /\ LET pname == processes[idx + 1][1]
         pobj == processes[idx + 1][2]
         owner == OwnerOf(pname, pobj, applications, components)
         flat == Flatten(pobj)
         maps == Attribute(app_process_map, comp_process_map, owner, flat.steps)
     IN IF flat.err
        THEN /\ pc' = "raised"
             /\ UNCHANGED <<app_process_map, comp_process_map, owners, idx>>
        ELSE /\ app_process_map' = maps[1]
             /\ comp_process_map' = maps[2]
             /\ owners' = Append(owners, owner)
             /\ idx' = idx + 1
             /\ pc' = pc
  /\ UNCHANGED <<items, indexed, applications, components, environments, processes,
                 app_services, app_env, handed>>
  /\ UNCHANGED fnVars

\* the service list of every application
DeriveServices ==
  /\ pc = "associate" /\ idx = Len(processes)
  /\ app_services' = [i \in 1..Len(applications) |->
                        <<applications[i][1], ServicesOf(applications[i][2], components)>>]
  /\ pc' = "services"
  /\ UNCHANGED <<items, indexed, applications, components, environments, processes,
                 app_process_map, comp_process_map, owners, app_env, handed, idx>>
  /\ UNCHANGED fnVars

\* one environment per application (or for the placeholder application)
PickEnvironments ==
  /\ pc = "services"
  /\ app_env' = [i \in 1..Len(AppNames(applications)) |->
                   <<AppNames(applications)[i],
                     PickEnv(AppNames(applications)[i], EnvNames(environments))>>]
  /\ pc' = "environments"
  /\ UNCHANGED <<items, indexed, applications, components, environments, processes,
                 app_process_map, comp_process_map, owners, app_services, handed, idx>>
  /\ UNCHANGED fnVars

\* --dry-run: the summary is printed and nothing is handed to the builders
DryRun ==
  /\ pc = "environments"
  /\ pc' = "dry"
  /\ UNCHANGED <<items, indexed, applications, components, environments, processes,
                 app_process_map, comp_process_map, owners, app_services, app_env,
                 handed, idx>>
  /\ UNCHANGED fnVars

\* the arguments of build_pipeline_yaml, one call per application
BuildPipelines ==
  /\ pc = "environments"
  /\ handed' = [i \in 1..Len(AppNames(applications)) |->
                  LET app_name == AppNames(applications)[i] IN
                  [name |-> app_name,
                   env_name |-> PyGet(app_env, app_name, S_PlaceholderEnv),
                   services |-> PyGet(app_services, app_name, PyKeys(components)),
                   proc_steps |-> PyGet(app_process_map, app_name, <<>>)]]
  /\ pc' = "written"
  /\ UNCHANGED <<items, indexed, applications, components, environments, processes,
                 app_process_map, comp_process_map, owners, app_services, app_env, idx>>
  /\ UNCHANGED fnVars

Next ==
  \/ IndexItem
  \/ StartAssociation
  \/ AssociateProcess
  \/ DeriveServices
  \/ PickEnvironments
  \/ DryRun
  \/ BuildPipelines

Spec == Init /\ [][Next]_vars

(***************************************************************************)
(* Properties of the run.                                                  *)
(***************************************************************************)
\* C1: a process that carries a string `application` or `applicationName`
\* field is owned by the application that field names, also when it carries a
\* string `component` or `componentName` field.
C1_ExplicitApplicationWins ==
  \A i \in 1..Len(owners) :
    LET a == FirstStringField(processes[i][2], <<S_application, S_applicationName>>)
    IN a # None => owners[i] = <<"app", a.v>>

\* the kind and the name the indexing loop computed for object i
KindAt(i) == indexed[i][1]

NameAt(i) == indexed[i][2]

\* the handled objects of the kind of object i that resolved to its name
Same(i) == {j \in 1..Len(indexed) : KindAt(j) = KindAt(i) /\ NameAt(j) = NameAt(i)}

BucketOf(kind) ==
  CASE kind = "application" -> applications
    [] kind = "component" -> components
    [] kind = "environment" -> environments

\* the bucket of object i's kind holds, under its name, the last handled object of that name
LastWins(i) ==
  PyGet(BucketOf(KindAt(i)), NameAt(i), None)
    = items[CHOOSE j \in Same(i) : \A k \in Same(i) : k <= j][2]

\* the bucket of object i's kind holds, under its name, the first handled object of that name
FirstWins(i) ==
  PyGet(BucketOf(KindAt(i)), NameAt(i), None)
    = items[CHOOSE j \in Same(i) : \A k \in Same(i) : j <= k][2]

\* C5 as stated: of the objects of one kind that resolve to one name, the
\* application bucket and the environment bucket hold the last, the component
\* bucket the first.
C5_LaterReplacesAppAndEnv ==
  \A i \in 1..Len(indexed) :
      /\ KindAt(i) \in {"application", "environment"} => LastWins(i)
      /\ KindAt(i) = "component" => FirstWins(i)

\* C5 as the code has it: of the objects of one kind that resolve to one
\* name, the application bucket holds the last, the component bucket and the
\* environment bucket the first.
C5_LaterReplacesAppOnly ==
  \A i \in 1..Len(indexed) :
      /\ KindAt(i) = "application" => LastWins(i)
      /\ KindAt(i) \in {"component", "environment"} => FirstWins(i)

\* two different environment objects of one name have been indexed, the
\* bucket holds the first, and an application is known
C5_Witness ==
  /\ Len(applications) = 1
  /\ \E i, j \in 1..Len(indexed) :
       /\ i < j /\ KindAt(i) = "environment" /\ j \in Same(i)
       /\ items[i][2] # items[j][2]
       /\ PyGet(environments, NameAt(i), None) = items[i][2]

\* the first position of a non-empty set of positions
First(S) == CHOOSE i \in S : \A j \in S : i <= j

\* C7: every application gets the first known environment (in insertion
\* order) whose name contains the application's name, case-insensitively;
\* the first known environment when none does; "PlaceholderEnv" when there is
\* no environment. The choice is a known environment name, or the placeholder
\* and then no environment is known.
C7_EnvironmentSelection ==
  pc \in {"environments", "dry", "written"} =>
    \A i \in 1..Len(applications) :
      LET app == applications[i][1]
          E == PyKeys(environments)
          chosen == PyGet(app_env, app, <<>>)
          hits == {k \in 1..Len(E) : Contains(Lower(app), Lower(E[k]))}
      IN /\ PyHas(app_env, app)
         /\ E = <<>> => chosen = S_PlaceholderEnv
         /\ (E # <<>> /\ hits # {}) => chosen = E[First(hits)]
         /\ (E # <<>> /\ hits = {}) => chosen = E[1]
         /\ \/ \E k \in 1..Len(E) : chosen = E[k]
            \/ chosen = S_PlaceholderEnv /\ E = <<>>

\* an application whose environment is not the first known one: a later
\* environment's name contains its name in another case
C7_Witness ==
  /\ pc = "environments"
  /\ \E i \in 1..Len(applications) :
       /\ Len(environments) >= 2
       /\ PyGet(app_env, applications[i][1], <<>>) = environments[2][1]
       /\ ~Contains(applications[i][1], environments[2][1])

\* the list value of a key, the empty list when the key holds no list
ListAt(o, k) == IF IsList(Get(o, k)) THEN Get(o, k).v ELSE <<>>

\* the name one list entry contributes, as a list of zero or one names
NameOfEntry(e) ==
  IF e.t = "str" THEN <<e.v>>
  ELSE IF e.t = "dict"
  THEN LET given == SelectSeq(<<Get(e, S_name), Get(e, S_component), Get(e, S_componentName)>>,
                              Truthy)
       IN IF given = <<>> THEN <<>> ELSE <<PyStr(given[1])>>
  ELSE <<>>

RECURSIVE NamesOfEntries(_)
NamesOfEntries(es) ==
  IF es = <<>> THEN <<>> ELSE NameOfEntry(Head(es)) \o NamesOfEntries(Tail(es))

\* the names an application object lists under its three component-list keys
Listed(aobj) ==
  NamesOfEntries(ListAt(aobj, S_components) \o ListAt(aobj, S_componentList)
                 \o ListAt(aobj, S_applicationComponents))

\* C8: the service list of an application is the names its component-list
\* keys give; when they give none (also when no such key is present) it is
\* the names of all known components in bucket order, and only then.
C8_ServiceDerivation ==
  pc \in {"services", "environments", "dry", "written"} =>
    \A i \in 1..Len(applications) :
      LET services == PyGet(app_services, applications[i][1], <<>>)
          listed == Listed(applications[i][2])
      IN /\ PyHas(app_services, applications[i][1])
         /\ listed # <<>> => services = listed
         /\ listed = <<>> => services = PyKeys(components)

\* an application without any of the three keys got the two known components;
\* another one whose list names nothing got them too
C8_Witness ==
  /\ pc = "services"
  /\ Len(components) = 2
  /\ \E i \in 1..Len(applications) :
       /\ \A k \in 1..Len(ComponentListKeys) : ~Has(applications[i][2], ComponentListKeys[k])
       /\ PyGet(app_services, applications[i][1], <<>>) = PyKeys(components)

\* the names whose step list differs between two maps
Changed(m1, m2) ==
  {k \in {m1[i][1] : i \in 1..Len(m1)} \cup {m2[i][1] : i \in 1..Len(m2)} :
     PyGet(m1, k, <<>>) # PyGet(m2, k, <<>>)}

\* a process without explicit owner field whose name and serialized text
\* contain no known application or component name
Unowned(pname, pobj) ==
  /\ FirstStringField(pobj, <<S_application, S_applicationName, S_component, S_componentName>>)
       = None
  /\ \A i \in 1..Len(applications) :
       ~Contains(Lower(applications[i][1]), Haystack(pname, pobj))
  /\ \A i \in 1..Len(components) :
       ~Contains(Lower(components[i][1]), Haystack(pname, pobj))

\* C9: handling one process appends its flattened steps to the step list of
\* at most one owner, application or component, and changes no other list; a
\* process without explicit owner field whose name and text contain no known
\* name changes no list, and the pass goes on without an error.
C9_AtMostOneOwner ==
  [][(pc = "associate" /\ idx < Len(processes)) =>
       LET pname == processes[idx + 1][1]
           pobj == processes[idx + 1][2]
           steps == Flatten(pobj).steps
           ca == Changed(app_process_map, app_process_map')
           cc == Changed(comp_process_map, comp_process_map')
       IN /\ Cardinality(ca) + Cardinality(cc) <= 1
          /\ \A k \in ca : PyGet(app_process_map', k, <<>>)
                             = PyGet(app_process_map, k, <<>>) \o steps
          /\ \A k \in cc : PyGet(comp_process_map', k, <<>>)
                             = PyGet(comp_process_map, k, <<>>) \o steps
          /\ Unowned(pname, pobj) =>
               (ca = {} /\ cc = {} /\ pc' = "associate" /\ idx' = idx + 1)]_vars

\* a process with steps was handled, got no owner although applications or
\* components are known, and every step list is empty
C9_Witness ==
  /\ pc = "associate"
  /\ Len(applications) + Len(components) > 0
  /\ \E i \in 1..Len(owners) :
       owners[i] = NoOwner /\ Flatten(processes[i][2]).steps # <<>>
  /\ \A i \in 1..Len(app_process_map) : app_process_map[i][2] = <<>>
  /\ \A i \in 1..Len(comp_process_map) : comp_process_map[i][2] = <<>>

\* flatten(p) of the processes from position i on that were attributed to owner, concatenated
RECURSIVE StepsOwnedFrom(_, _)
StepsOwnedFrom(owner, i) ==
  IF i > Len(owners) THEN <<>>
  ELSE (IF owners[i] = owner THEN Flatten(processes[i][2]).steps ELSE <<>>)
       \o StepsOwnedFrom(owner, i + 1)

StepNames(steps) == [i \in 1..Len(steps) |-> steps[i].name]

\* the input of the end-to-end scenario, in any order
IsScenario == Len(items) = 3 /\ {items[i] : i \in 1..3} = {A_checkout, P_checkout, E_prod}

\* C10: the steps handed to the pipeline builder for an application are the
\* concatenation, in input order, of flatten(p) over the processes p
\* attributed to it; in the end-to-end scenario the application "Checkout"
\* is handed services web, db, environment prod and the steps Build, Deploy.
C10_StepsHanded ==
  pc = "written" =>
    /\ Len(handed) = Len(AppNames(applications))
    /\ \A i \in 1..Len(applications) :
         /\ handed[i].name = applications[i][1]
         /\ handed[i].proc_steps = StepsOwnedFrom(<<"app", applications[i][1]>>, 1)
    /\ IsScenario =>
         /\ Len(handed) = 1
         /\ handed[1].name = <<"C", "h", "e", "c", "k", "o", "u", "t">>
         /\ handed[1].services = <<<<"w", "e", "b">>, <<"d", "b">>>>
         /\ handed[1].env_name = <<"p", "r", "o", "d">>
         /\ StepNames(handed[1].proc_steps) = <<<<"B", "u", "i", "l", "d">>, <<"D", "e", "p", "l", "o", "y">>>>

\* two processes with steps were attributed to one application and handed over
C10_Witness ==
  /\ pc = "written"
  /\ \E i, j \in 1..Len(owners) :
       /\ i < j
       /\ owners[i] = owners[j]
       /\ owners[i] = <<"app", handed[1].name>>
       /\ Flatten(processes[i][2]).steps # <<>>
       /\ Flatten(processes[j][2]).steps # <<>>
       /\ Flatten(processes[i][2]).steps # Flatten(processes[j][2]).steps

\* none of rootActivity (a dict), steps (a list), activities (a list) is present
NoEntryShape(o) ==
  /\ ~IsDict(Get(o, S_rootActivity))
  /\ ~IsList(Get(o, S_steps))
  /\ ~IsList(Get(o, S_activities))

\* C11: flatten starts from rootActivity when it is a single node, else from
\* the steps list, else from the activities list; a process object with none
\* of the three in that shape is one implicit step, and the result is exactly
\* the one descriptor built from the object itself.
C11_EntryPointAndImplicitStep ==
  (fpc = "done" /\ Acyclic(obj)) =>
    /\ IsDict(Get(obj, S_rootActivity)) =>
         ret = Returned(Uniq(PreOrder(<<Get(obj, S_rootActivity)>>), {}))
    /\ (~IsDict(Get(obj, S_rootActivity)) /\ IsList(Get(obj, S_steps))) =>
         ret = Returned(Uniq(PreOrder(DictsOf(Get(obj, S_steps).v)), {}))
    /\ (~IsDict(Get(obj, S_rootActivity)) /\ ~IsList(Get(obj, S_steps))
          /\ IsList(Get(obj, S_activities))) =>
         ret = Returned(Uniq(PreOrder(DictsOf(Get(obj, S_activities).v)), {}))
    /\ NoEntryShape(obj) => ret = Returned(<<StepOf(obj)>>)
====
